---- MODULE Spec2Model ----
(***************************************************************************)
(* Multi-agent blog generator (main.py): a FastAPI service whose           *)
(* POST /generate runs research_agent | writer_agent | reviewer_agent,     *)
(* three model calls in sequence, and answers 200 or 500.                  *)
(*                                                                         *)
(* A request is modelled from its arrival to its response.  The handler    *)
(* is cut at its model calls, the only points where it waits on the        *)
(* outside: one action issues a call, the next takes the provider's        *)
(* answer (a text, or an exception) and runs the code up to the next call. *)
(***************************************************************************)
EXTENDS Integers, Sequences, FiniteSets, TLC

VARIABLES
    env,        \* os.environ["OPENAI_API_KEY"]; "" when unset
    phase,      \* "import" (module not yet executed), "serving", "crashed"
    llm,        \* the module-level client handle
    pc,         \* per request: where its handler stands
    request,    \* per request: the BlogRequest the handler received
    inputs,     \* per request: generate_blog's local dict `inputs`
    state,      \* per request: the dict threaded through blog_chain
    history,    \* per request: its model calls, returns and raises, in order
    response,   \* per request: the HTTP response
    getResp,    \* the last response of a GET endpoint
    getTick     \* flips at every GET served

vars == <<env, phase, llm, pc, request, inputs, state, history, response,
          getResp, getTick>>

reqVars == <<pc, request, inputs, state, history, response>>

----------------------------------------------------------------------------
(* Bounds and input alphabets *)

MaxReq == 2          \* request slots of the concurrent specification
MaxTexts == 4        \* how many different texts the provider may return

Requests == 1..MaxReq
Serial == {1}        \* the one-request-at-a-time specification

Keys == {"", "sk-bad", "sk-good"}     \* values of the credential
ValidKeys == {"sk-good"}              \* the ones the provider accepts

TextPool == <<"", "alpha", "beta", "gamma", "delta">>
Texts == {TextPool[i] : i \in 1..MaxTexts}
ConcTexts == {"alpha", "beta"}

Topics == {"", "AI"}
Tones == {"casual"}
Lengths == {"short", "medium", "long", "xl"}

\* JSON bodies of POST /generate: topic, and optionally tone and length
Bodies ==
    {[topic |-> t] : t \in Topics}
    \cup {[topic |-> t, tone |-> o] : t \in Topics, o \in Tones}
    \cup {[topic |-> t, length |-> l] : t \in Topics, l \in Lengths}
    \cup {[topic |-> t, tone |-> o, length |-> l] :
            t \in Topics, o \in Tones, l \in Lengths}

ConcBodies == {[topic |-> "AI", length |-> "short"],
               [topic |-> "", tone |-> "casual", length |-> "long"],
               [topic |-> "AI", tone |-> "casual", length |-> "xl"]}

----------------------------------------------------------------------------
(* Values *)

NoLLM == [model |-> "", api_key |-> ""]
NoRequest == [absent |-> TRUE]
NoDict == [k \in {} |-> ""]
NoResponse == [status_code |-> 0]
NoGet == [path |-> ""]

\* {**f, k: v}
Merge(f, k, v) == [j \in DOMAIN f \cup {k} |-> IF j = k THEN v ELSE f[j]]

\* f.get(k, default)
Get(f, k, default) == IF k \in DOMAIN f THEN f[k] ELSE default

\* pydantic fills the defaults of the fields the body leaves out
BlogRequest(body) ==
    [topic  |-> body.topic,
     tone   |-> Get(body, "tone", "professional"),
     length |-> Get(body, "length", "medium")]

ChatOpenAI(api_key) == [model |-> "gpt-4o-mini", api_key |-> api_key]

\* exceptions, and str(e)
KeyError(k) == [type |-> "KeyError", args |-> k]
ConnectionError == [type |-> "APIConnectionError", args |-> "Connection error."]
AuthenticationError ==
    [type |-> "AuthenticationError", args |-> "Incorrect API key provided"]

Str(e) == IF e.type = "KeyError" THEN "'" \o e.args \o "'" ELSE e.args

\* what the provider can answer to a call made with `client`
ProviderErrors(client) ==
    IF client.api_key \in ValidKeys THEN {ConnectionError}
                                    ELSE {AuthenticationError}

ProviderTexts(client, texts) ==
    IF client.api_key \in ValidKeys THEN texts ELSE {}

----------------------------------------------------------------------------
(* The three agents.  A prompt is the f-string's segments in order:        *)
(* the template's literal pieces and the fields put between them.          *)

\* faulty variant: an unrecognized length gets a default word count
word_count_lenient ==
    [short |-> "500-700", medium |-> "800-1200", long |-> "1500-2000",
     xl |-> "800-1200"]

word_count == [short |-> "500-700", medium |-> "800-1200", long |-> "1500-2000"]

research_prompt(in) ==
    <<"You are a research agent. Research the topic: ", in["topic"],
      " Structured outline for a ", in["length"], " blog post. Tone: ",
      in["tone"]>>

research_agent(in, content) == Merge(in, "research", content)

\* faulty variant: "long" is missing from the table
writer_raises_no_long(in) == in["length"] \notin {"short", "medium"}

\* the f-string reads research, topic, tone, then word_count[length]
writer_raises(in) == in["length"] \notin DOMAIN word_count

writer_prompt(in) ==
    <<"You are a professional blog writer. Research: ", in["research"],
      " Topic: ", in["topic"], " Tone: ", in["tone"], " Length: ",
      word_count[in["length"]], " words">>

writer_agent(in, content) == Merge(in, "draft", content)

reviewer_prompt(in) ==
    <<"You are an editorial reviewer. Draft: ", in["draft"],
      " Tone consistency (", in["tone"], ") Return the final polished version.">>

\* faulty variant: the draft is stored as final_blog, the review is lost
reviewer_agent_keeps_draft(in, content) == Merge(in, "final_blog", in["draft"])

\* faulty variant: the review is written over the draft
reviewer_agent_overwrites(in, content) == Merge(in, "draft", content)

reviewer_agent(in, content) == Merge(in, "final_blog", content)

\* history events
Call(stage, prompt, client) ==
    [kind |-> "call", stage |-> stage, prompt |-> prompt, client |-> client]
Return(stage, content) == [kind |-> "return", stage |-> stage, content |-> content]
Raise(stage, e) == [kind |-> "raise", stage |-> stage, error |-> e]

----------------------------------------------------------------------------
(* Responses *)

\* faulty variant: final_blog is read from the draft
BlogResponse_draft_as_final(req, final_state) ==
    [status_code |-> 200,
     body |-> [topic      |-> req.topic,
               research   |-> Get(final_state, "research", ""),
               draft      |-> Get(final_state, "draft", ""),
               final_blog |-> Get(final_state, "draft", ""),
               status     |-> "success"]]

BlogResponse(req, final_state) ==
    [status_code |-> 200,
     body |-> [topic      |-> req.topic,
               research   |-> Get(final_state, "research", ""),
               draft      |-> Get(final_state, "draft", ""),
               final_blog |-> Get(final_state, "final_blog", ""),
               status     |-> "success"]]

\* faulty variant: the error is returned as a body, with status 200
HTTPException_ok(e) == [status_code |-> 200, body |-> [detail |-> Str(e)]]

HTTPException(e) == [status_code |-> 500, body |-> [detail |-> Str(e)]]

\* faulty variant: health depends on the credential
health_check_probing ==
    [path |-> "/health",
     status_code |-> IF llm.api_key \in ValidKeys THEN 200 ELSE 503,
     body |-> [status |-> IF llm.api_key \in ValidKeys THEN "healthy" ELSE "unhealthy",
               version |-> "3.0.0"]]

health_check ==
    [path |-> "/health", status_code |-> 200,
     body |-> [status |-> "healthy", version |-> "3.0.0"]]

root ==
    [path |-> "/", status_code |-> 200,
     body |-> [message |-> "Multi-Agent Blog Generator API (LangChain Chaining)",
               endpoints |-> {"/generate", "/health"}]]

----------------------------------------------------------------------------
(* Startup *)

Init ==
    /\ env \in Keys
    /\ phase = "import"
    /\ llm = NoLLM
    /\ pc = [r \in Requests |-> "idle"]
    /\ request = [r \in Requests |-> NoRequest]
    /\ inputs = [r \in Requests |-> NoDict]
    /\ state = [r \in Requests |-> NoDict]
    /\ history = [r \in Requests |-> <<>>]
    /\ response = [r \in Requests |-> NoResponse]
    /\ getResp = NoGet
    /\ getTick = 0

\* faulty variant: no check of the credential
get_llm_unchecked ==
    /\ phase = "import"
    /\ phase' = "serving"
    /\ llm' = ChatOpenAI(env)
    /\ UNCHANGED <<env, reqVars, getResp, getTick>>

\* the module body: llm = get_llm() raises ValueError without a credential
get_llm ==
    /\ phase = "import"
    /\ IF env = ""
         THEN phase' = "crashed" /\ llm' = llm
         ELSE phase' = "serving" /\ llm' = ChatOpenAI(env)
    /\ UNCHANGED <<env, reqVars, getResp, getTick>>

\* the environment changes under the process
SetEnv(k) ==
    /\ k # env
    /\ env' = k
    /\ UNCHANGED <<phase, llm, reqVars, getResp, getTick>>

----------------------------------------------------------------------------
(* GET endpoints *)

Health ==
    /\ phase = "serving"
    /\ getResp' = health_check
    /\ getTick' = 1 - getTick
    /\ UNCHANGED <<env, phase, llm, reqVars>>

Root ==
    /\ phase = "serving"
    /\ getResp' = root
    /\ getTick' = 1 - getTick
    /\ UNCHANGED <<env, phase, llm, reqVars>>

----------------------------------------------------------------------------
(* POST /generate *)

\* the except clause: the chain's state is dropped, a 500 is answered
Fail(r, hist, e) ==
    /\ pc' = [pc EXCEPT ![r] = "done"]
    /\ state' = [state EXCEPT ![r] = NoDict]
    /\ history' = [history EXCEPT ![r] = hist]
    /\ response' = [response EXCEPT ![r] = HTTPException(e)]

\* faulty variant: the length is validated before any work is done
GenerateValidates(r, body) ==
    /\ phase = "serving"
    /\ pc[r] = "idle"
    /\ LET req == BlogRequest(body)
           in  == [topic |-> req.topic, tone |-> req.tone, length |-> req.length]
       IN /\ request' = [request EXCEPT ![r] = req]
          /\ inputs' = [inputs EXCEPT ![r] = in]
          /\ IF writer_raises(in)
               THEN Fail(r, <<>>, KeyError(in["length"]))
               ELSE /\ state' = [state EXCEPT ![r] = in]
                    /\ history' = [history EXCEPT ![r] =
                                     <<Call("research", research_prompt(in), llm)>>]
                    /\ pc' = [pc EXCEPT ![r] = "research"]
                    /\ response' = response
    /\ UNCHANGED <<env, phase, llm, getResp, getTick>>

\* the request arrives; the handler builds inputs and research_agent
\* issues the first model call
Generate(r, body) ==
    /\ phase = "serving"
    /\ pc[r] = "idle"
    /\ LET req == BlogRequest(body)
           in  == [topic |-> req.topic, tone |-> req.tone, length |-> req.length]
       IN /\ request' = [request EXCEPT ![r] = req]
          /\ inputs' = [inputs EXCEPT ![r] = in]
          /\ state' = [state EXCEPT ![r] = in]
          /\ history' = [history EXCEPT ![r] =
                            <<Call("research", research_prompt(in), llm)>>]
    /\ pc' = [pc EXCEPT ![r] = "research"]
    /\ UNCHANGED <<env, phase, llm, response, getResp, getTick>>

\* the research call returns; writer_agent builds its prompt (or raises
\* KeyError) and issues the second call
ResearchReturn(r, content) ==
    /\ pc[r] = "research"
    /\ content \in ProviderTexts(llm, Texts)
    /\ LET st   == research_agent(state[r], content)
           hist == Append(history[r], Return("research", content))
       IN IF writer_raises(st)
            THEN /\ Fail(r, Append(hist, Raise("writer", KeyError(st["length"]))),
                         KeyError(st["length"]))
            ELSE /\ state' = [state EXCEPT ![r] = st]
                 /\ history' = [history EXCEPT ![r] =
                                  Append(hist, Call("writer", writer_prompt(st), llm))]
                 /\ pc' = [pc EXCEPT ![r] = "writer"]
                 /\ response' = response
    /\ UNCHANGED <<env, phase, llm, request, inputs, getResp, getTick>>

\* faulty variant: the chain ends after the writer
WriterReturnSkipsReview(r, content) ==
    /\ pc[r] = "writer"
    /\ content \in ProviderTexts(llm, Texts)
    /\ LET st == writer_agent(state[r], content)
       IN /\ state' = [state EXCEPT ![r] = st]
          /\ response' = [response EXCEPT ![r] = BlogResponse(request[r], st)]
    /\ history' = [history EXCEPT ![r] = Append(@, Return("writer", content))]
    /\ pc' = [pc EXCEPT ![r] = "done"]
    /\ UNCHANGED <<env, phase, llm, request, inputs, getResp, getTick>>

\* the writer call returns; reviewer_agent issues the third call
WriterReturn(r, content) ==
    /\ pc[r] = "writer"
    /\ content \in ProviderTexts(llm, Texts)
    /\ LET st   == writer_agent(state[r], content)
           hist == Append(history[r], Return("writer", content))
       IN /\ state' = [state EXCEPT ![r] = st]
          /\ history' = [history EXCEPT ![r] =
                           Append(hist, Call("reviewer", reviewer_prompt(st), llm))]
    /\ pc' = [pc EXCEPT ![r] = "reviewer"]
    /\ UNCHANGED <<env, phase, llm, request, inputs, response, getResp, getTick>>

\* faulty variant: the chain's dict is one module-level slot
ReviewerReturnShared(r, content) ==
    /\ pc[r] = "reviewer"
    /\ content \in ProviderTexts(llm, Texts)
    /\ LET st == reviewer_agent(state[1], content)
       IN /\ state' = [state EXCEPT ![r] = st]
          /\ response' = [response EXCEPT ![r] = BlogResponse(request[r], st)]
    /\ history' = [history EXCEPT ![r] = Append(@, Return("reviewer", content))]
    /\ pc' = [pc EXCEPT ![r] = "done"]
    /\ UNCHANGED <<env, phase, llm, request, inputs, getResp, getTick>>

\* the reviewer call returns; the chain ends and the handler answers 200
ReviewerReturn(r, content) ==
    /\ pc[r] = "reviewer"
    /\ content \in ProviderTexts(llm, Texts)
    /\ LET st == reviewer_agent(state[r], content)
       IN /\ state' = [state EXCEPT ![r] = st]
          /\ response' = [response EXCEPT ![r] = BlogResponse(request[r], st)]
    /\ history' = [history EXCEPT ![r] = Append(@, Return("reviewer", content))]
    /\ pc' = [pc EXCEPT ![r] = "done"]
    /\ UNCHANGED <<env, phase, llm, request, inputs, getResp, getTick>>

\* the pending model call raises: the exception leaves the chain and
\* reaches generate_blog's except clause
ModelRaise(r, e) ==
    /\ pc[r] \in {"research", "writer", "reviewer"}
    /\ e \in ProviderErrors(llm)
    /\ Fail(r, Append(history[r], Raise(pc[r], e)), e)
    /\ UNCHANGED <<env, phase, llm, request, inputs, getResp, getTick>>

\* the client has its response; nothing of the request is kept
Close(r) ==
    /\ pc[r] = "done"
    /\ pc' = [pc EXCEPT ![r] = "idle"]
    /\ request' = [request EXCEPT ![r] = NoRequest]
    /\ inputs' = [inputs EXCEPT ![r] = NoDict]
    /\ state' = [state EXCEPT ![r] = NoDict]
    /\ history' = [history EXCEPT ![r] = <<>>]
    /\ response' = [response EXCEPT ![r] = NoResponse]
    /\ UNCHANGED <<env, phase, llm, getResp, getTick>>

----------------------------------------------------------------------------
(* Specifications *)

\* one request at a time, the full input alphabet
Next ==
    \/ get_llm
    \/ \E k \in Keys : SetEnv(k)
    \/ Health
    \/ Root
    \/ \E r \in Serial, b \in Bodies : Generate(r, b)
    \/ \E r \in Serial, t \in Texts : ResearchReturn(r, t)
    \/ \E r \in Serial, t \in Texts : WriterReturn(r, t)
    \/ \E r \in Serial, t \in Texts : ReviewerReturn(r, t)
    \/ \E r \in Serial, e \in ProviderErrors(llm) : ModelRaise(r, e)
    \/ \E r \in Serial : Close(r)

Spec == Init /\ [][Next]_vars

\* handlers of several requests interleaved at their model calls, a reduced
\* input alphabet, the environment as it was at the start
ConcNext ==
    \/ get_llm
    \/ Health
    \/ \E r \in Requests, b \in ConcBodies : Generate(r, b)
    \/ \E r \in Requests, t \in ConcTexts : ResearchReturn(r, t)
    \/ \E r \in Requests, t \in ConcTexts : WriterReturn(r, t)
    \/ \E r \in Requests, t \in ConcTexts : ReviewerReturn(r, t)
    \/ \E r \in Requests, e \in ProviderErrors(llm) : ModelRaise(r, e)
    \/ \E r \in Requests : Close(r)

ConcSpec == Init /\ [][ConcNext]_vars

----------------------------------------------------------------------------
(* What the claims speak of *)

Started(r) == pc[r] # "idle"
Done(r) == pc[r] = "done"
ValidLength(r) == Started(r) /\ request[r].length \in {"short", "medium", "long"}
InvalidLength(r) == Started(r) /\ request[r].length \notin {"short", "medium", "long"}

IsCall(ev) == ev.kind = "call"
IsReturn(ev) == ev.kind = "return"
IsRaise(ev) == ev.kind = "raise"

Calls(r) == SelectSeq(history[r], IsCall)
Raises(r) == SelectSeq(history[r], IsRaise)
\* the texts the request's model calls returned, in order
Returned(r) ==
    LET s == SelectSeq(history[r], IsReturn) IN [i \in 1..Len(s) |-> s[i].content]
\* a model call of the request raised (the writer's KeyError is no model call)
ModelRaised(r) ==
    \E i \in 1..Len(history[r]) :
        IsRaise(history[r][i]) /\ history[r][i].error.type # "KeyError"

Success(r) ==
    /\ response[r].status_code = 200
    /\ DOMAIN response[r].body =
           {"topic", "research", "draft", "final_blog", "status"}
    /\ response[r].body.status = "success"
NonEmptyTexts(r) ==
    /\ response[r].body.research # ""
    /\ response[r].body.draft # ""
    /\ response[r].body.final_blog # ""

----------------------------------------------------------------------------
\* C1 as stated: every completed request with a valid length is answered 200,
\* status "success", with non-empty research, draft and final_blog.
C1_Original ==
    \A r \in Requests :
        (Done(r) /\ ValidLength(r)) => (Success(r) /\ NonEmptyTexts(r))

\* C1 amended: a completed request with a valid length, none of whose model
\* calls raised and all of whose model calls returned non-empty text, is
\* answered 200, status "success", with non-empty research, draft, final_blog.
C1_ValidLengthSuccess ==
    \A r \in Requests :
        (/\ Done(r) /\ ValidLength(r)
         /\ ~ModelRaised(r)
         /\ \A i \in 1..Len(Returned(r)) : Returned(r)[i] # "")
        => (Success(r) /\ NonEmptyTexts(r))

C1_Witness ==
    \E r \in Requests :
        /\ Done(r) /\ request[r].length = "long" /\ request[r].topic = ""
        /\ request[r].tone = "casual"
        /\ Success(r) /\ NonEmptyTexts(r)

----------------------------------------------------------------------------
\* C2 as stated: every completed request with an unrecognized length ends in
\* an error response, never 200, and its writer stage raised the lookup error.
C2_Original ==
    \A r \in Requests :
        (Done(r) /\ InvalidLength(r)) =>
            /\ response[r].status_code = 500
            /\ \E i \in 1..Len(history[r]) :
                   history[r][i] = Raise("writer", KeyError(request[r].length))

\* C2 amended: a request with an unrecognized length is never answered 200 and
\* ends in a 500; the writer stage raises the lookup error (and the detail is
\* the quoted length) when the research call returned, and otherwise the
\* research call's own exception is what ends the request. No writer call is
\* ever issued.
C2_InvalidLengthFails ==
    \A r \in Requests :
        InvalidLength(r) =>
            /\ response[r].status_code # 200
            /\ \A i \in 1..Len(history[r]) :
                   IsCall(history[r][i]) => history[r][i].stage = "research"
            /\ Done(r) =>
                /\ response[r].status_code = 500
                /\ IF Len(Returned(r)) >= 1
                     THEN /\ history[r][Len(history[r])] =
                                 Raise("writer", KeyError(request[r].length))
                          /\ request[r].length = "xl" =>
                                 response[r].body = [detail |-> "'xl'"]
                     ELSE /\ history[r][Len(history[r])].kind = "raise"
                          /\ history[r][Len(history[r])].stage = "research"
                          /\ response[r].body.detail =
                                 history[r][Len(history[r])].error.args

C2_Witness ==
    \E r \in Requests :
        /\ Done(r) /\ InvalidLength(r)
        /\ Returned(r) = <<"alpha">>
        /\ response[r] = [status_code |-> 500, body |-> [detail |-> "'xl'"]]

----------------------------------------------------------------------------
\* C3: an exception raised while the pipeline runs ends the request at once
\* in a 500 whose only field is detail = str(exception); the texts of the
\* earlier stages are dropped; a completed request has exactly one response,
\* a 200 success or a 500 error, and an unfinished one has none.
C3_ExceptionsBecome500 ==
    \A r \in Requests :
        /\ Done(r) <=> response[r] # NoResponse
        /\ Done(r) =>
             \/ Success(r) /\ Raises(r) = <<>>
             \/ /\ response[r].status_code = 500
                /\ DOMAIN response[r].body = {"detail"}
                /\ Len(Raises(r)) = 1
        /\ \A i \in 1..Len(history[r]) :
             IsRaise(history[r][i]) =>
                /\ i = Len(history[r])
                /\ Done(r)
                /\ response[r].status_code = 500
                /\ response[r].body = [detail |-> Str(history[r][i].error)]
                /\ state[r] = NoDict

C3_Witness ==
    \E r \in Requests :
        /\ Done(r)
        /\ Len(Returned(r)) = 2 /\ Returned(r)[1] # "" /\ Returned(r)[2] # ""
        /\ response[r] = [status_code |-> 500,
                          body |-> [detail |-> "Connection error."]]

----------------------------------------------------------------------------
\* C4: the model calls of a request are research, writer, reviewer in this
\* order, each issued once and only after the previous one returned; a raise
\* ends the sequence; a successful request made exactly the three calls.
Shape(r) ==
    [i \in 1..Len(history[r]) |-> <<history[r][i].kind, history[r][i].stage>>]

Pipeline ==
    <<<<"call", "research">>, <<"return", "research">>,
      <<"call", "writer">>, <<"return", "writer">>,
      <<"call", "reviewer">>, <<"return", "reviewer">>>>

IsPrefix(s, t) == Len(s) <= Len(t) /\ \A i \in 1..Len(s) : s[i] = t[i]

C4_StagesInOrder ==
    \A r \in Requests :
        LET n == Len(history[r])
            body == IF n > 0 /\ IsRaise(history[r][n])
                      THEN SubSeq(Shape(r), 1, n - 1) ELSE Shape(r)
        IN /\ IsPrefix(body, Pipeline)
           /\ (n > 0 /\ IsRaise(history[r][n])) =>
                \* a pending call raised, or the writer raised before its call
                \/ /\ Shape(r)[n - 1][1] = "call"
                   /\ Shape(r)[n][2] = Shape(r)[n - 1][2]
                \/ Shape(r) = <<Pipeline[1], Pipeline[2], <<"raise", "writer">>>>
           /\ pc[r] \in {"research", "writer", "reviewer"} =>
                Shape(r)[n] = <<"call", pc[r]>>
           /\ response[r].status_code = 200 =>
                (Shape(r) = Pipeline /\ Len(Calls(r)) = 3)

C4_Witness ==
    \E r \in Requests :
        /\ Success(r)
        /\ Len(Calls(r)) = 3
        /\ Returned(r) = <<"alpha", "beta", "alpha">>

----------------------------------------------------------------------------
\* C5: with the handlers of several requests interleaved, what a request
\* holds and is answered comes from its own request and its own model calls;
\* a step of one request leaves every other request's state alone; every
\* model call uses the one shared client, which no step changes once the
\* module is imported.
ReqState(r) ==
    <<pc[r], request[r], inputs[r], state[r], history[r], response[r]>>

OwnTexts(r) ==
    /\ Started(r) =>
         inputs[r] = [topic |-> request[r].topic, tone |-> request[r].tone,
                      length |-> request[r].length]
    /\ \A k \in DOMAIN state[r] \cap {"topic", "tone", "length"} :
         state[r][k] = request[r][k]
    /\ "research" \in DOMAIN state[r] => state[r]["research"] = Returned(r)[1]
    /\ "draft" \in DOMAIN state[r] => state[r]["draft"] = Returned(r)[2]
    /\ "final_blog" \in DOMAIN state[r] => state[r]["final_blog"] = Returned(r)[3]
    /\ response[r].status_code = 200 =>
         /\ Len(Returned(r)) = 3
         /\ response[r].body.topic = request[r].topic
         /\ response[r].body.research = Returned(r)[1]
         /\ response[r].body.draft = Returned(r)[2]
         /\ response[r].body.final_blog = Returned(r)[3]
    /\ \A i \in 1..Len(history[r]) :
         IsCall(history[r][i]) => history[r][i].client = llm

C5_RequestsIsolated ==
    /\ [](\A r \in Requests : OwnTexts(r))
    /\ [][\A r, q \in Requests :
            (r # q /\ ReqState(r)' # ReqState(r)) => ReqState(q)' = ReqState(q)]_vars
    /\ [][phase # "import" => llm' = llm]_vars

C5_Witness ==
    /\ Success(1)
    /\ pc[2] = "reviewer"
    /\ request[1] # request[2]
    /\ state[1]["research"] # state[2]["research"]
    /\ state[1]["draft"] # state[2]["draft"]

----------------------------------------------------------------------------
\* C6: every /health response is 200 {status "healthy", version "3.0.0"};
\* the endpoint answers in every state of the running service, whatever the
\* credential and the requests; serving a GET leaves the credential, the
\* client and every request (its model calls included) as they were.
C6_HealthAlwaysHealthy ==
    /\ [](getResp.path = "/health" =>
            getResp = [path |-> "/health", status_code |-> 200,
                       body |-> [status |-> "healthy", version |-> "3.0.0"]])
    /\ [](phase = "serving" => ENABLED Health)
    /\ [][getTick' # getTick => UNCHANGED <<env, phase, llm, reqVars>>]_vars

C6_Witness ==
    /\ getResp.path = "/health" /\ getResp.status_code = 200
    /\ llm.api_key \notin ValidKeys
    /\ \E r, q \in Requests :
         /\ pc[r] = "research"
         /\ response[q].status_code = 500

----------------------------------------------------------------------------
\* C7: the service serves only with a client built from a non-empty
\* credential, the one the environment held when the module was imported;
\* with no credential the import fails, for good, and nothing is ever
\* served; once built the client never changes, whatever the environment
\* does, and every model call uses it.
NothingServed ==
    /\ getResp = NoGet
    /\ \A r \in Requests : pc[r] = "idle" /\ response[r] = NoResponse

C7_CredentialAtStartup ==
    /\ [](phase = "serving" => llm.api_key # "")
    /\ [](phase # "serving" => NothingServed)
    /\ [][phase = "import" =>
            /\ (env = "" => phase' # "serving")
            /\ (phase' = "serving" => llm' = ChatOpenAI(env))]_vars
    /\ [][phase = "crashed" => phase' = "crashed"]_vars
    /\ [][phase = "serving" => (phase' = "serving" /\ llm' = llm)]_vars
    /\ [](\A r \in Requests : \A i \in 1..Len(history[r]) :
            IsCall(history[r][i]) => history[r][i].client = llm)

C7_Witness ==
    /\ phase = "crashed"
    /\ env = "sk-good"
    /\ NothingServed

----------------------------------------------------------------------------
\* C8 as stated: in every successful response research, draft and final_blog
\* are pairwise distinct.
C8_Original ==
    \A r \in Requests :
        Success(r) =>
            /\ response[r].body.research # response[r].body.draft
            /\ response[r].body.draft # response[r].body.final_blog
            /\ response[r].body.research # response[r].body.final_blog

\* C8 amended: in a successful response two of the three texts are equal
\* exactly when the two model calls that produced them returned equal texts.
C8_DistinctAsReturned ==
    \A r \in Requests :
        Success(r) =>
            /\ Len(Returned(r)) = 3
            /\ (response[r].body.research = response[r].body.draft)
                  <=> (Returned(r)[1] = Returned(r)[2])
            /\ (response[r].body.draft = response[r].body.final_blog)
                  <=> (Returned(r)[2] = Returned(r)[3])
            /\ (response[r].body.research = response[r].body.final_blog)
                  <=> (Returned(r)[1] = Returned(r)[3])

C8_Witness ==
    \E r \in Requests :
        /\ Success(r) /\ NonEmptyTexts(r)
        /\ response[r].body.research # response[r].body.draft
        /\ response[r].body.draft # response[r].body.final_blog
        /\ response[r].body.research # response[r].body.final_blog

----------------------------------------------------------------------------
\* C9: the dict a stage returns is the dict it was given plus one key:
\* research, then draft, then final_blog; topic, tone, length and the earlier
\* texts keep their values; the handler's inputs dict is never changed; a 200
\* carries the request's topic and status "success".
StageKeys(p) ==
    CASE p = "research" -> {"topic", "tone", "length"}
      [] p = "writer"   -> {"topic", "tone", "length", "research"}
      [] p = "reviewer" -> {"topic", "tone", "length", "research", "draft"}
      [] OTHER          -> {"topic", "tone", "length", "research", "draft",
                            "final_blog"}

C9_Frame(r) ==
    /\ pc[r] \in {"research", "writer", "reviewer"} =>
         DOMAIN state[r] = StageKeys(pc[r])
    /\ response[r].status_code = 200 =>
         /\ DOMAIN state[r] = StageKeys("done")
         /\ response[r].body.topic = request[r].topic
    /\ Started(r) =>
         /\ inputs[r] = [topic |-> request[r].topic, tone |-> request[r].tone,
                         length |-> request[r].length]
         /\ \A k \in DOMAIN state[r] \cap DOMAIN inputs[r] :
              state[r][k] = inputs[r][k]
    /\ "status" \in DOMAIN Get(response[r], "body", NoDict) =>
         response[r].body.status = "success"

C9_StageStep(r) ==
    (state[r] # NoDict /\ state'[r] # NoDict /\ state'[r] # state[r]) =>
        /\ DOMAIN state[r] \subseteq DOMAIN state'[r]
        /\ Cardinality(DOMAIN state'[r]) = Cardinality(DOMAIN state[r]) + 1
        /\ \A k \in DOMAIN state[r] : state'[r][k] = state[r][k]
        /\ inputs'[r] = inputs[r]

C9_StagesAddOneKey ==
    /\ [](\A r \in Requests : C9_Frame(r))
    /\ [][\A r \in Requests : C9_StageStep(r)]_vars

C9_Witness ==
    \E r \in Requests :
        /\ Success(r) /\ NonEmptyTexts(r)
        /\ request[r].topic = "AI"
        /\ response[r].body.topic = "AI"
        /\ state[r]["draft"] # state[r]["final_blog"]
        /\ DOMAIN inputs[r] = {"topic", "tone", "length"}

----------------------------------------------------------------------------
\* C10: the writer's prompt holds the text the research call returned (with
\* topic, tone and the word count of the length), the reviewer's prompt the
\* text the writer call returned (with the tone); a 200 carries the first,
\* second and third returned texts as research, draft and final_blog.
C10_DataFlowsForward ==
    \A r \in Requests :
        /\ \A i \in 1..Len(history[r]) :
             LET ev == history[r][i] IN
             /\ (IsCall(ev) /\ ev.stage = "research") =>
                  (ev.prompt[2] = request[r].topic
                   /\ ev.prompt[4] = request[r].length
                   /\ ev.prompt[6] = request[r].tone)
             /\ (IsCall(ev) /\ ev.stage = "writer") =>
                  (/\ history[r][i - 1] = Return("research", ev.prompt[2])
                   /\ ev.prompt[4] = request[r].topic
                   /\ ev.prompt[6] = request[r].tone
                   /\ ev.prompt[8] = word_count[request[r].length])
             /\ (IsCall(ev) /\ ev.stage = "reviewer") =>
                  (/\ history[r][i - 1] = Return("writer", ev.prompt[2])
                   /\ ev.prompt[4] = request[r].tone)
        /\ response[r].status_code = 200 =>
             /\ history[r][2] = Return("research", response[r].body.research)
             /\ history[r][4] = Return("writer", response[r].body.draft)
             /\ history[r][6] = Return("reviewer", response[r].body.final_blog)

C10_Witness ==
    \E r \in Requests :
        /\ Success(r) /\ NonEmptyTexts(r)
        /\ response[r].body.draft # response[r].body.final_blog
        /\ response[r].body.research # response[r].body.draft
        /\ history[r][3].prompt[2] = response[r].body.research
        /\ history[r][5].prompt[2] = response[r].body.draft

----------------------------------------------------------------------------
\* C11: a raise is the last event of its request: after it no model call is
\* issued and the history stays as it is until the request is closed. A
\* request with an unrecognized length is not rejected up front: from its
\* arrival it has exactly one model call, the research call, whose prompt
\* holds the raw length; when the writer stage fails, that call has returned
\* and nothing else has happened; no writer or reviewer call is ever made.
HasRaised(r) == Raises(r) # <<>>

C11_Invalid(r) ==
    InvalidLength(r) =>
        /\ Len(Calls(r)) = 1
        /\ history[r][1].kind = "call"
        /\ history[r][1].stage = "research"
        /\ history[r][1].prompt[4] = request[r].length
        /\ (\E i \in 1..Len(history[r]) :
                IsRaise(history[r][i]) /\ history[r][i].stage = "writer") =>
             (/\ Len(history[r]) = 3
              /\ IsReturn(history[r][2]) /\ history[r][2].stage = "research"
              /\ history[r][3] = Raise("writer", KeyError(request[r].length)))

C11_FailureStopsPipeline ==
    /\ [](\A r \in Requests :
            /\ C11_Invalid(r)
            /\ \A i \in 1..Len(history[r]) :
                 IsRaise(history[r][i]) => (i = Len(history[r]) /\ Done(r)))
    /\ [][\A r \in Requests :
            HasRaised(r) => (history'[r] = history[r] \/ history'[r] = <<>>)]_vars

C11_Witness ==
    \E r \in Requests :
        /\ Done(r)
        /\ request[r].length = "xl"
        /\ Len(Calls(r)) = 1
        /\ Calls(r)[1].prompt[4] = "xl"
        /\ history[r][2] = Return("research", "beta")
        /\ history[r][3] = Raise("writer", KeyError("xl"))
        /\ response[r].status_code = 500

====
